---- MODULE Spec2Model ----
(***************************************************************************)
(* Model of updateHostsFile.py: the merge / normalize / dedupe / exclude   *)
(* pipeline (promptForExclusions .. finalizeFile).                         *)
(*                                                                         *)
(* Text is modelled as Python models it: a string is a sequence of         *)
(* one-character strings, a file is the sequence of its characters, and    *)
(* the output file is the sequence of the chunks handed to writeData.      *)
(***************************************************************************)
EXTENDS Integers, Sequences, FiniteSets, TLC

VARIABLES
    pc,             \* position in main(): which call comes next
    sources,        \* the host files on disk: [base, extension, blacklist]
    whitelistfile,  \* the whitelist file: its lines, or <<>> when it is absent
    settings,       \* the global settings mapping (the keys the pipeline reads)
    mergeFile,      \* the temporary merge file: its characters
    mergeLines,     \* the list mergeFile.readlines() returned to the loop
    pos,            \* number of lines of mergeFile the loop has consumed
    finalFile,      \* the output file: the chunks written, in file order
    writtenBy,      \* history: for each chunk, the line number that wrote it (0: header)
    facts,          \* history: for each consumed line, what the loop found in it
    hostnames,      \* the local set `hostnames` of removeDupsAndExcl
    numberOfRules   \* the local counter `numberOfRules` of removeDupsAndExcl

vars == <<pc, sources, whitelistfile, settings, mergeFile, mergeLines, pos,
          finalFile, writtenBy, facts, hostnames, numberOfRules>>

----------------------------------------------------------------------------
(* Bounds of the model *)

MaxBaseLines == 1
MaxExclusions == 1

----------------------------------------------------------------------------
(* Characters and Python string primitives *)

Whitespace == {" ", "\t", "\n", "\r"}

Digits == {"0", "1", "2", "3", "4", "5", "6", "7", "8", "9"}

LowerChars == <<"a","b","c","d","e","f","g","h","i","j","k","l","m",
                "n","o","p","q","r","s","t","u","v","w","x","y","z">>

UpperChars == <<"A","B","C","D","E","F","G","H","I","J","K","L","M",
                "N","O","P","Q","R","S","T","U","V","W","X","Y","Z">>

Letters == {LowerChars[i] : i \in 1..26} \cup {UpperChars[i] : i \in 1..26}

\* \w of the re module
WordChars == Letters \cup Digits \cup {"_"}

\* [\w\.-]
HostChars == WordChars \cup {".", "-"}

\* [a-zA-Z\d-]
LabelChars == Letters \cup Digits \cup {"-"}

None == <<>>

From(s, p) == SubSeq(s, p, Len(s))

\* length of the longest prefix of s made of characters of cs
SpanLen(s, cs) ==
    IF \A i \in 1..Len(s) : s[i] \in cs THEN Len(s)
    ELSE (CHOOSE i \in 1..Len(s) : s[i] \notin cs /\ \A j \in 1..(i-1) : s[j] \in cs) - 1

\* length of the longest prefix of s made of characters outside cs
SpanNotLen(s, cs) ==
    IF \A i \in 1..Len(s) : s[i] \notin cs THEN Len(s)
    ELSE (CHOOSE i \in 1..Len(s) : s[i] \in cs /\ \A j \in 1..(i-1) : s[j] \notin cs) - 1

StartsWith(s, t) == Len(t) <= Len(s) /\ SubSeq(s, 1, Len(t)) = t

\* t in s
Contains(s, t) == \E i \in 1..(Len(s) - Len(t) + 1) : SubSeq(s, i, i + Len(t) - 1) = t

RECURSIVE rstrip(_, _)
rstrip(s, cs) ==
    IF s = <<>> \/ s[Len(s)] \notin cs THEN s
    ELSE rstrip(SubSeq(s, 1, Len(s) - 1), cs)

RECURSIVE lstrip(_, _)
lstrip(s, cs) ==
    IF s = <<>> \/ s[1] \notin cs THEN s
    ELSE lstrip(Tail(s), cs)

strip(s, cs) == lstrip(rstrip(s, cs), cs)

\* s.replace(old, new), old non-empty
RECURSIVE replace(_, _, _)
replace(s, old, new) ==
    IF s = <<>> THEN <<>>
    ELSE IF StartsWith(s, old) THEN new \o replace(From(s, Len(old) + 1), old, new)
    ELSE <<s[1]>> \o replace(Tail(s), old, new)

\* s.split(): the maximal runs of non-whitespace characters
RECURSIVE split(_), splitWords(_), splitAt(_, _)
split(s) == splitWords(lstrip(s, Whitespace))

\* the words of t, which does not begin with whitespace
splitWords(t) == IF t = <<>> THEN <<>> ELSE splitAt(t, SpanNotLen(t, Whitespace))

\* the first word of t, n characters long, and the words after it
splitAt(t, n) == <<SubSeq(t, 1, n)>> \o split(From(t, n + 1))

lowerChar(c) ==
    IF \E i \in 1..26 : UpperChars[i] = c
    THEN LowerChars[CHOOSE i \in 1..26 : UpperChars[i] = c]
    ELSE c

\* lower that leaves the case as it is
lowerKeepCase(s) == s

\* s.lower()
lower(s) == [i \in 1..Len(s) |-> lowerChar(s[i])]

\* file.readlines(): every line keeps its "\n"; the last one may have none
RECURSIVE readlines(_), readlinesAt(_, _)
readlines(text) ==
    IF text = <<>> THEN <<>> ELSE readlinesAt(text, SpanNotLen(text, {"\n"}))

\* the first line of text, which has n characters before its "\n", and the lines after it
readlinesAt(text, n) ==
    IF n = Len(text) THEN <<text>>
    ELSE <<SubSeq(text, 1, n + 1)>> \o readlines(From(text, n + 2))

RECURSIVE Flatten(_)
Flatten(chunks) ==
    IF chunks = <<>> THEN <<>> ELSE Head(chunks) \o Flatten(Tail(chunks))

DigitChar(d) == <<"0", "1", "2", "3", "4", "5", "6", "7", "8", "9">>[d + 1]

RECURSIVE Decimal(_)
Decimal(n) ==
    IF n < 10 THEN <<DigitChar(n)>> ELSE Decimal(n \div 10) \o <<DigitChar(n % 10)>>

\* "{:,}".format(n)
RECURSIVE FormatThousands(_)
FormatThousands(n) ==
    IF n < 1000 THEN Decimal(n)
    ELSE FormatThousands(n \div 1000) \o <<",">>
         \o <<DigitChar((n % 1000) \div 100), DigitChar((n % 100) \div 10), DigitChar(n % 10)>>

----------------------------------------------------------------------------
(* Exclusion logic *)

\* re.compile("www\d{0,3}[.]|https?").match(domain)
domainRegexMatch(domain) ==
    \/ /\ StartsWith(domain, <<"w","w","w">>)
       /\ \E k \in 0..3 : /\ 3 + k + 1 <= Len(domain)
                          /\ \A j \in 1..k : domain[3 + j] \in Digits
                          /\ domain[3 + k + 1] = "."
    \/ StartsWith(domain, <<"h","t","t","p">>)

isValidDomainFormat(domain) ==
    IF domain = <<>> THEN FALSE
    ELSE IF domainRegexMatch(domain) THEN FALSE
    ELSE TRUE

\* x is in ([a-zA-Z\d-]+\.){0,} : a run of labels, each closed by a period
labelsMatch(x) ==
    /\ x # <<>> => x[Len(x)] = "."
    /\ \A i \in 1..Len(x) : x[i] \in LabelChars \cup {"."}
    /\ \A i \in 1..Len(x) : x[i] = "." => (i > 1 /\ x[i-1] # ".")

\* one character of the domain, read as a regular expression, matches c
\* ("." matches any character but a newline)
atomMatches(a, c) == IF a = "." THEN c # "\n" ELSE a = c

\* the domain from its i-th character on, read as a regular expression, matches
\* s at p: a character followed by "+" matches one or more times
RECURSIVE domainMatchFrom(_, _, _, _)
domainMatchFrom(domain, i, s, p) ==
    IF i > Len(domain) THEN TRUE
    ELSE IF i < Len(domain) /\ domain[i + 1] = "+"
    THEN \E n \in 1..(Len(s) - p + 1) :
            /\ \A j \in 0..(n - 1) : atomMatches(domain[i], s[p + j])
            /\ domainMatchFrom(domain, i + 2, s, p + n)
    ELSE /\ p <= Len(s)
         /\ atomMatches(domain[i], s[p])
         /\ domainMatchFrom(domain, i + 1, s, p + 1)

\* the domain, used as a regular expression as excludeDomain appends it
\* (unescaped), matches s at p; of the operators of the re module the domains
\* of UserDomains hold "." and "+"
domainMatchAt(domain, s, p) == domainMatchFrom(domain, 1, s, p)

\* re.compile(settings["exclusionpattern"] + domain).search(s)
exclusionRegexSearch(domain, s) ==
    \E p \in 1..(Len(s) + 1) :
        /\ domainMatchAt(domain, s, p)
        /\ \E start \in 1..p : labelsMatch(SubSeq(s, start, p - 1))

matchesAny(strippedDomain) ==
    \E k \in 1..Len(settings.exclusionregexs) :
        exclusionRegexSearch(settings.exclusionregexs[k], strippedDomain)

matchesExclusions(strippedRule) == matchesAny(split(strippedRule)[2])

----------------------------------------------------------------------------
(* Rule parsing and normalization *)

joinRule(splitLine) ==
    IF Len(splitLine) < 2 THEN <<>>
    ELSE splitLine[1] \o <<" ">> \o splitLine[2]

stripRule(line) == joinRule(split(line))

\* p + n, the index after a run of n >= 1 characters at p, or 0 when n = 0
afterRun(p, n) == IF n = 0 THEN 0 ELSE p + n

\* index after a run \d+ that starts at p, or 0 when there is no digit at p
afterDigits(s, p) == IF p = 0 THEN 0 ELSE afterRun(p, SpanLen(From(s, p), Digits))

\* index after a "\." at p, or 0
afterDot(s, p) == IF p = 0 \/ p > Len(s) \/ s[p] # "." THEN 0 ELSE p + 1

\* index after k runs \d+ joined by "\." that start at p, or 0
RECURSIVE afterQuads(_, _, _)
afterQuads(s, p, k) ==
    IF k = 1 THEN afterDigits(s, p)
    ELSE afterQuads(s, afterDot(s, afterDigits(s, p)), k - 1)

\* index after \d+\.\d+\.\d+\.\d+ starting at p, or 0
afterIPv4(s, p) == afterQuads(s, p, 4)

noMatch == [matched |-> FALSE, hostname |-> None, suffix |-> None]

\* ([\w\.-]+)(.*) at p2, the host run being hl characters long
ruleGroups(rule, p2, hl) ==
    IF hl = 0 THEN noMatch
    ELSE [matched  |-> TRUE,
          hostname |-> SubSeq(rule, p2, p2 + hl - 1),
          suffix   |-> SubSeq(rule, p2 + hl,
                              p2 + hl - 1 + SpanNotLen(From(rule, p2 + hl), {"\n"}))]

\* \s+([\w\.-]+)(.*) at p1, the whitespace run being ws characters long
ruleAfterSpace(rule, p1, ws) ==
    IF ws = 0 THEN noMatch
    ELSE ruleGroups(rule, p1 + ws, SpanLen(From(rule, p1 + ws), HostChars))

\* the rest of the pattern after the address, which ends before p1 (0: no address)
ruleAfterAddress(rule, p1) ==
    IF p1 = 0 THEN noMatch
    ELSE ruleAfterSpace(rule, p1, SpanLen(From(rule, p1), Whitespace))

\* re.search(r'^[ \t]*(\d+\.\d+\.\d+\.\d+)\s+([\w\.-]+)(.*)', rule):
\* [matched, hostname (group 2), suffix (group 3)]
ruleRegexSearch(rule) ==
    ruleAfterAddress(rule, afterIPv4(rule, 1 + SpanLen(rule, {" ", "\t"})))

\* the pair normalizeRule returns for a lower-cased, trimmed hostname and a suffix
formatRule(hostname, suffix) ==
    IF suffix # <<>> /\ settings.keepdomaincomments
    THEN [hostname |-> hostname,
          rule |-> settings.targetip \o <<" ">> \o hostname \o <<" ","#">> \o suffix \o <<"\n">>]
    ELSE [hostname |-> hostname,
          rule |-> settings.targetip \o <<" ">> \o hostname \o <<"\n">>]

normalizeResult(result) ==
    IF result.matched
    THEN formatRule(strip(lower(result.hostname), Whitespace), result.suffix)
    ELSE [hostname |-> None, rule |-> None]

\* normalizeRule that hands back a rule it cannot parse as the text to write
normalizeRuleEcho(rule) ==
    IF ruleRegexSearch(rule).matched THEN normalizeResult(ruleRegexSearch(rule))
    ELSE [hostname |-> None, rule |-> rule \o <<"\n">>]

normalizeRule(rule) == normalizeResult(ruleRegexSearch(rule))

----------------------------------------------------------------------------
(* The inputs the model draws from *)

\* lines a host file may hold
Lines == {
    <<"0",".","0",".","0",".","0"," ","a",".","c","o","m","\n">>,
    <<"0",".","0",".","0",".","0"," ","A",".","c","o","m","\n">>,
    <<"0",".","0",".","0",".","0"," ","a",".","c","o","m",".","\n">>,
    <<"0",".","0",".","0",".","0"," ","a",".","c","o","m",".">>,
    <<"0",".","0",".","0",".","0"," ","a",".","c","o","m"," ","#"," ","t","r","k","\n">>,
    <<"0",".","0",".","0",".","0"," ","b",".","c","o","m"," ","#",":",":","1","\n">>,
    <<" ","0",".","0",".","0",".","0"," ","b",".","c","o","m","\n">>,
    <<"0",".","0",".","0",".","0"," ","l","o","c","a","l","h","o","s","t","\n">>,
    <<"#",":",":","1"," ","n","\n">>,
    <<"\n">>,
    <<"f","o","o","\n">>,
    <<"0",".","0",".","0",".","0"," ","s",".","a",".","c","o","m","\n">>,
    <<"0",".","0",".","0",".","0"," ","a","+","b",".","c","o","m","\n">>,
    <<"b","a","d"," ","a",".","c","o","m","\n">>,
    <<"0",".","0",".","0",".","0"," ","0",".","0",".","0",".","0","\n">> }

\* an enabled extension's host file and the blacklist file
ExtensionFiles == {
    <<>>,
    <<"0",".","0",".","0",".","0"," ","a",".","c","o","m","\n","0",".","0",".","0",".","0"," ","l","o","c","a","l","h","o","s","t","\n">> }

BlacklistFiles == {
    <<>>,
    <<"1",".","2",".","3",".","4"," ","a",".","c","o","m","\n">> }

\* the whitelist file: absent, or these lines
WhitelistFiles == { <<>>, << <<"#"," ","w","l","\n">>, <<"\n">>, <<" ","t","r","k","\t","\n">>, <<"c","o","m",".","\n">> >> }

\* the machine the program runs on: platform.system() = "Linux" or not, and the
\* content of the file myhosts ("" when there is none)
Hosts == { [isLinux |-> FALSE, preamble |-> <<>>],
           [isLinux |-> TRUE,  preamble |-> <<"1","0",".","0",".","0",".","1"," ","n","a","s","\n">>] }

\* what the user may type at the exclusion prompt
UserDomains == { <<"a",".","c","o","m">>, <<"a","+","b",".","c","o","m">>, <<"w","w","w",".","a",".","c","o","m">>, <<>> }

RECURSIVE SeqsUpTo(_, _)
SeqsUpTo(S, n) ==
    IF n = 0 THEN {<<>>}
    ELSE LET shorter == SeqsUpTo(S, n - 1)
         IN  shorter \cup {Append(q, x) : q \in {r \in shorter : Len(r) = n - 1}, x \in S}

BaseFiles == {Flatten(q) : q \in SeqsUpTo(Lines, MaxBaseLines)}

----------------------------------------------------------------------------
(* State machine *)

defaults ==
    [numberofrules      |-> 0,
     skipstatichosts    |-> FALSE,
     keepdomaincomments |-> FALSE,
     extensions         |-> <<>>,
     outputsubfolder    |-> <<>>,
     targetip           |-> <<"0",".","0",".","0",".","0">>,
     exclusionregexs    |-> <<>>,
     exclusions         |-> <<>>]

Init ==
    /\ pc = "promptForExclusions"
    /\ \E base \in BaseFiles, ext \in ExtensionFiles, bl \in BlacklistFiles :
          sources = [base |-> base, extension |-> ext, blacklist |-> bl]
    /\ whitelistfile \in WhitelistFiles
    /\ \E keep \in BOOLEAN, skip \in BOOLEAN :
          settings = [defaults EXCEPT !.keepdomaincomments = keep,
                                      !.skipstatichosts = skip,
                                      !.extensions = IF sources.extension = <<>>
                                                     THEN <<>> ELSE << <<"e","x","t">> >>]
    /\ mergeFile = <<>>
    /\ mergeLines = <<>>
    /\ pos = 0
    /\ finalFile = <<>>
    /\ writtenBy = <<>>
    /\ facts = <<>>
    /\ hostnames = {}
    /\ numberOfRules = 0

\* promptForExclusions -> gather_custom_exclusions: a valid domain is excluded
excludeDomain(domain) ==
    /\ pc = "promptForExclusions"
    /\ Len(settings.exclusionregexs) < MaxExclusions
    /\ isValidDomainFormat(domain)
    /\ settings' = [settings EXCEPT !.exclusionregexs = Append(@, domain)]
    /\ UNCHANGED <<pc, sources, whitelistfile, mergeFile, mergeLines, pos, finalFile,
                   writtenBy, facts, hostnames, numberOfRules>>

\* base sources, then the enabled extensions' sources, then the blacklist
createInitialFile ==
    /\ pc = "promptForExclusions"
    /\ mergeFile' = sources.base
                    \o (IF settings.extensions # <<>> THEN sources.extension ELSE <<>>)
                    \o sources.blacklist
    /\ pc' = "removeDupsAndExcl"
    /\ UNCHANGED <<sources, whitelistfile, settings, mergeLines, pos, finalFile,
                   writtenBy, facts, hostnames, numberOfRules>>

\* the whitelist entries removeDupsAndExcl appends to settings["exclusions"]
\* lines 331-333: the stripped whitelist line is kept unless empty or a comment
whitelistEntry(line) ==
    IF line # <<>> /\ ~StartsWith(line, <<"#">>) THEN <<line>> ELSE <<>>

RECURSIVE whitelistEntries(_)
whitelistEntries(ins) ==
    IF ins = <<>> THEN <<>>
    ELSE whitelistEntry(strip(Head(ins), {" ", "\t", "\n", "\r"})) \o whitelistEntries(Tail(ins))

\* removeDupsAndExcl up to the loop
removeDupsAndExclBegin ==
    /\ pc = "removeDupsAndExcl"
    /\ numberOfRules' = settings.numberofrules
    /\ settings' = [settings EXCEPT !.exclusions = @ \o whitelistEntries(whitelistfile)]
    /\ finalFile' = <<>>
    /\ writtenBy' = <<>>
    /\ facts' = <<>>
    /\ pos' = 0
    /\ hostnames' = { <<"l","o","c","a","l","h","o","s","t">>, <<"l","o","c","a","l","h","o","s","t",".","l","o","c","a","l","d","o","m","a","i","n">>, <<"l","o","c","a","l">>, <<"b","r","o","a","d","c","a","s","t","h","o","s","t">> }
    /\ mergeLines' = readlines(mergeFile)
    /\ pc' = "loop"
    /\ UNCHANGED <<sources, whitelistfile, mergeFile>>

\* the loop variable `line` after the tab replacement and the trailing trim
trimLine(raw) == rstrip(replace(raw, <<"\t","+">>, <<" ">>), {" ", "."}) \o <<"\n">>

isPassThrough(line) == line[1] = "#" \/ line[1] \in Whitespace

\* isExcluded testing the first two tokens instead of the whole line
isExcludedStripped(line) ==
    \E k \in 1..Len(settings.exclusions) : Contains(stripRule(line), settings.exclusions[k])

isExcluded(line) == \E k \in 1..Len(settings.exclusions) : Contains(line, settings.exclusions[k])

dropped == [kind |-> "drop", hostname |-> None, text |-> None]

\* ruleOutcome without the membership test on the set of seen hostnames
ruleOutcomeNoDedupe(line, n) ==
    IF n.rule # None /\ ~isExcluded(line)
    THEN [kind |-> "write", hostname |-> n.hostname, text |-> n.rule]
    ELSE dropped

\* lines 369-372: the normalized pair n of a rule line is written or not
ruleOutcome(line, n) ==
    IF n.rule # None /\ n.hostname \notin hostnames /\ ~isExcluded(line)
    THEN [kind |-> "write", hostname |-> n.hostname, text |-> n.rule]
    ELSE dropped

\* lines 362-364
strippedOutcome(line, strippedRule) ==
    IF strippedRule = <<>> THEN dropped
    ELSE IF matchesExclusions(strippedRule) THEN dropped
    ELSE ruleOutcome(line, normalizeRule(strippedRule))

\* lineOutcome without the "::1" test
lineOutcomeKeepIPv6(line) ==
    IF isPassThrough(line) THEN [kind |-> "pass", hostname |-> None, text |-> line]
    ELSE strippedOutcome(line, stripRule(line))

\* what one iteration does with `line`: "pass", "drop" or "write", and the text written
lineOutcome(line) ==
    IF isPassThrough(line) THEN [kind |-> "pass", hostname |-> None, text |-> line]
    ELSE IF Contains(line, <<":",":","1">>) THEN dropped
    ELSE strippedOutcome(line, stripRule(line))

\* applyOutcome that never adds the hostname to the set
applyOutcomeForgetHost(out) ==
    /\ finalFile' = IF out.kind = "drop" THEN finalFile ELSE Append(finalFile, out.text)
    /\ writtenBy' = IF out.kind = "drop" THEN writtenBy ELSE Append(writtenBy, pos + 1)
    /\ hostnames' = hostnames
    /\ numberOfRules' = IF out.kind = "write" THEN numberOfRules + 1 ELSE numberOfRules

\* applyOutcome that counts every chunk written, pass-through lines included
applyOutcomeCountAll(out) ==
    /\ finalFile' = IF out.kind = "drop" THEN finalFile ELSE Append(finalFile, out.text)
    /\ writtenBy' = IF out.kind = "drop" THEN writtenBy ELSE Append(writtenBy, pos + 1)
    /\ hostnames' = IF out.kind = "write" THEN hostnames \cup {out.hostname} ELSE hostnames
    /\ numberOfRules' = IF out.kind = "drop" THEN numberOfRules ELSE numberOfRules + 1

\* the effect of one iteration on the file, the set and the counter
applyOutcome(out) ==
    /\ finalFile' = IF out.kind = "drop" THEN finalFile ELSE Append(finalFile, out.text)
    /\ writtenBy' = IF out.kind = "drop" THEN writtenBy ELSE Append(writtenBy, pos + 1)
    /\ hostnames' = IF out.kind = "write" THEN hostnames \cup {out.hostname} ELSE hostnames
    /\ numberOfRules' = IF out.kind = "write" THEN numberOfRules + 1 ELSE numberOfRules

NoFacts(line) ==
    [line |-> line, reaches |-> FALSE, host |-> None, token |-> None, rule |-> None]

\* the facts of a line whose first two tokens give the match `result` and the
\* normalized pair n
PairFacts(line, result, n) ==
    [line    |-> line,
     reaches |-> n.rule # None,
     host    |-> n.hostname,
     token   |-> result.hostname,
     rule    |-> n.rule]

\* the match of the rule pattern on the first two tokens, and the pair
\* normalizeRule makes of it
MatchFacts(line, result) == PairFacts(line, result, normalizeResult(result))

RuleFacts(line, rule) ==
    IF rule = <<>> THEN NoFacts(line)
    ELSE IF matchesExclusions(rule) \/ isExcluded(line) THEN NoFacts(line)
    ELSE MatchFacts(line, ruleRegexSearch(rule))

\* line: the loop variable `line` after the trim of line 352;
\* reaches: the line is a rule line that no step before the dedupe test drops;
\* host: the hostname it normalizes to; token: the hostname as the line spells it;
\* rule: the record it normalizes to
LineFacts(line) ==
    IF isPassThrough(line) \/ Contains(line, <<":",":","1">>) THEN NoFacts(line)
    ELSE RuleFacts(line, stripRule(line))

\* one iteration of the loop of removeDupsAndExcl
removeDupsAndExclLine ==
    /\ pc = "loop"
    /\ pos < Len(mergeLines)
    /\ \E line \in {trimLine(mergeLines[pos + 1])} :
          /\ \E out \in {lineOutcome(line)} : applyOutcome(out)
          /\ facts' = Append(facts, LineFacts(line))
    /\ pos' = pos + 1
    /\ UNCHANGED <<pc, sources, whitelistfile, settings, mergeFile, mergeLines>>

\* removeDupsAndExcl after the loop
removeDupsAndExclEnd ==
    /\ pc = "loop"
    /\ pos = Len(mergeLines)
    /\ settings' = [settings EXCEPT !.numberofrules = numberOfRules]
    /\ pc' = "finalizeFile"
    /\ UNCHANGED <<sources, whitelistfile, mergeFile, mergeLines, pos, finalFile,
                   writtenBy, facts, hostnames, numberOfRules>>

staticHosts(isLinux, hostname) ==
    << <<"1","2","7",".","0",".","0",".","1"," ","l","o","c","a","l","h","o","s","t","\n">>,
       <<"1","2","7",".","0",".","0",".","1"," ","l","o","c","a","l","h","o","s","t",".","l","o","c","a","l","d","o","m","a","i","n","\n">>,
       <<"1","2","7",".","0",".","0",".","1"," ","l","o","c","a","l","\n">>,
       <<"2","5","5",".","2","5","5",".","2","5","5",".","2","5","5"," ","b","r","o","a","d","c","a","s","t","h","o","s","t","\n">>,
       <<":",":","1"," ","l","o","c","a","l","h","o","s","t","\n">>,
       <<"f","e","8","0",":",":","1","%","l","o","0"," ","l","o","c","a","l","h","o","s","t","\n">>,
       <<"0",".","0",".","0",".","0"," ","0",".","0",".","0",".","0","\n">> >>
    \o (IF isLinux THEN << <<"1","2","7",".","0",".","1",".","1"," ">> \o hostname \o <<"\n">>,
                           <<"1","2","7",".","0",".","0",".","5","3"," ">> \o hostname \o <<"\n">> >>
        ELSE <<>>)
    \o << <<"\n">> >>

\* the chunks writeOpeningHeader writes before the saved content
openingHeader(date, isLinux, hostname, preamble) ==
    << <<"#"," ","T","h","i","s"," ","h","o","s","t","s"," ","f","i","l","e"," ","i","s"," ","a"," ","m","e","r","g","e","d"," ","c","o","l","l","e","c","t","i","o","n"," ","o","f"," ","h","o","s","t","s"," ","f","r","o","m"," ","r","e","p","u","t","a","b","l","e"," ","s","o","u","r","c","e","s",",","\n">>,
       <<"#"," ","w","i","t","h"," ","a"," ","d","a","s","h"," ","o","f"," ","c","r","o","w","d"," ","s","o","u","r","c","i","n","g"," ","v","i","a"," ","G","i","t","h","u","b","\n","#","\n">>,
       <<"#"," ","D","a","t","e",":"," ">> \o date \o <<"\n">> >>
    \o (IF settings.extensions # <<>>
        THEN << <<"#"," ","E","x","t","e","n","s","i","o","n","s"," ","a","d","d","e","d"," ","t","o"," ","t","h","i","s"," ","f","i","l","e",":"," ">> \o Flatten(settings.extensions) \o <<"\n">> >>
        ELSE <<>>)
    \o << <<"#"," ","N","u","m","b","e","r"," ","o","f"," ","u","n","i","q","u","e"," ","d","o","m","a","i","n","s",":"," ">> \o FormatThousands(settings.numberofrules) \o <<"\n","#","\n">>,
          <<"#"," ","F","e","t","c","h"," ","t","h","e"," ","l","a","t","e","s","t"," ","v","e","r","s","i","o","n"," ","o","f"," ","t","h","i","s"," ","f","i","l","e",":"," ","h","t","t","p","s",":","/","/","r","a","w",".","g","i","t","h","u","b","u","s","e","r","c","o","n","t","e","n","t",".","c","o","m","/","S","t","e","v","e","n","B","l","a","c","k","/","h","o","s","t","s","/","m","a","s","t","e","r","/">>
              \o settings.outputsubfolder \o <<"h","o","s","t","s","\n">>,
          <<"#"," ","P","r","o","j","e","c","t"," ","h","o","m","e"," ","p","a","g","e",":"," ","h","t","t","p","s",":","/","/","g","i","t","h","u","b",".","c","o","m","/","S","t","e","v","e","n","B","l","a","c","k","/","h","o","s","t","s","\n","#","\n">>,
          <<"#"," ","=","=","=","=","=","=","=","=","=","=","=","=","=","=","=","=","=","=","=","=","=","=","=","=","=","=","=","=","=","=","=","=","=","=","=","=","=","=","=","=","=","=","=","=","=","=","=","=","=","=","=","=","=","=","=","=","=","=","=","=","=","=","=","\n">>,
          <<"\n">> >>
    \o (IF ~settings.skipstatichosts THEN staticHosts(isLinux, hostname) ELSE <<>>)
    \o (IF preamble # <<>> THEN <<preamble>> ELSE <<>>)

prependHeader(header) ==
    /\ finalFile' = header \o finalFile
    /\ writtenBy' = [i \in 1..Len(header) |-> 0] \o writtenBy

\* finalizeFile: writeOpeningHeader puts the header before the body
finalizeFile ==
    /\ pc = "finalizeFile"
    /\ \E host \in Hosts :
          prependHeader(openingHeader(<<"J","a","n","u","a","r","y"," ","0","1"," ","2","0","1","7">>, host.isLinux, <<"b","o","x">>,
                                      host.preamble))
    /\ pc' = "done"
    /\ UNCHANGED <<sources, whitelistfile, settings, mergeFile, mergeLines, pos,
                   facts, hostnames, numberOfRules>>

Next ==
    \/ \E domain \in UserDomains : excludeDomain(domain)
    \/ createInitialFile
    \/ removeDupsAndExclBegin
    \/ removeDupsAndExclLine
    \/ removeDupsAndExclEnd
    \/ finalizeFile

Spec == Init /\ [][Next]_vars

----------------------------------------------------------------------------
(* Vocabulary of the properties *)

\* the loop has started: finalFile holds the merged body (after the header once done)
InPass == pc \in {"loop", "finalizeFile", "done"}

\* the k-th line of the merge file as the loop holds it after line 352
lineAt(k) == IF k <= Len(facts) THEN facts[k].line ELSE trimLine(mergeLines[k])

\* the lines the loop has consumed
Consumed == 1..(IF InPass THEN pos ELSE 0)

\* the chunks of finalFile that belong to the merged body
BodyChunks == {i \in 1..Len(finalFile) : writtenBy[i] # 0}

\* the input lines that wrote a chunk
WritingLines == {writtenBy[i] : i \in BodyChunks}

\* the rule records of the body: chunks of the form "<targetip> <hostname>..."
RecordChunks == {i \in BodyChunks : StartsWith(finalFile[i], settings.targetip \o <<" ">>)}

\* the hostname a rule record carries
RecordHost(i) == split(finalFile[i])[2]

\* the hostname of every rule record
RECURSIVE HostsUpTo(_)
HostsUpTo(n) ==
    IF n = 0 THEN <<>>
    ELSE Append(HostsUpTo(n - 1),
                IF writtenBy[n] # 0 /\ StartsWith(finalFile[n], settings.targetip \o <<" ">>)
                THEN RecordHost(n) ELSE None)

RecordHosts == HostsUpTo(Len(finalFile))

SeededHostnames ==
    { <<"l","o","c","a","l","h","o","s","t">>, <<"l","o","c","a","l","h","o","s","t",".","l","o","c","a","l","d","o","m","a","i","n">>, <<"l","o","c","a","l">>, <<"b","r","o","a","d","c","a","s","t","h","o","s","t">> }

\* the facts of every consumed line, in the order of the merge file
Facts == facts

\* consumed lines i < j both reach the dedupe test with the same hostname
SameHost(F, i, j) == i < j /\ F[i].reaches /\ F[j].reaches /\ F[i].host = F[j].host

\* k is the first consumed line that reaches the dedupe test with hostname h
IsFirstWith(F, k, h) ==
    /\ k \in Consumed /\ F[k].reaches /\ F[k].host = h
    /\ \A m \in 1..(k - 1) : ~(F[m].reaches /\ F[m].host = h)

----------------------------------------------------------------------------
(* C1: no two rule records of the merged body carry the same hostname. *)
C1_DedupInvariant ==
    LET H == RecordHosts
    IN  \A i \in RecordChunks : \A j \in RecordChunks : i # j => H[i] # H[j]

\* two consumed rule lines normalize to one hostname and the body holds two records
C1_Witness ==
    /\ pc = "finalizeFile"
    /\ Cardinality(RecordChunks) >= 2
    /\ LET F == Facts IN \E i \in Consumed : \E j \in Consumed : SameHost(F, i, j)

(* C2, as claimed: of two rule lines that reach the dedupe test with the same  *)
(* hostname, exactly one record is written, by the first such line, and the    *)
(* later line writes nothing.                                                  *)
C2_FirstWins_AsClaimed ==
    LET F == Facts
        H == RecordHosts
    IN  \A i \in Consumed : \A j \in Consumed :
            SameHost(F, i, j)
            => /\ Cardinality({r \in RecordChunks : H[r] = F[i].host}) = 1
               /\ \A r \in RecordChunks :
                     H[r] = F[i].host => IsFirstWith(F, writtenBy[r], F[i].host)
               /\ j \notin WritingLines

(* C2, amended: the same for every hostname that is not one of the four names  *)
(* the set of seen hostnames starts with; for those four, neither line writes  *)
(* a record.                                                                   *)
C2_FirstWins ==
    LET F == Facts
        H == RecordHosts
    IN  \A i \in Consumed : \A j \in Consumed :
            SameHost(F, i, j)
            => IF F[i].host \in SeededHostnames
               THEN /\ \A r \in RecordChunks : H[r] # F[i].host
                    /\ i \notin WritingLines
                    /\ j \notin WritingLines
               ELSE /\ Cardinality({r \in RecordChunks : H[r] = F[i].host}) = 1
                    /\ \A r \in RecordChunks :
                          H[r] = F[i].host
                          => IsFirstWith(F, writtenBy[r], F[i].host) /\ writtenBy[r] <= i
                    /\ j \notin WritingLines

\* a later line with another address and the same hostname has been consumed
C2_Witness ==
    LET F == Facts
    IN  \E i \in Consumed : \E j \in Consumed :
            /\ SameHost(F, i, j)
            /\ split(lineAt(i))[1] # split(lineAt(j))[1]
            /\ F[i].host \notin SeededHostnames
            /\ i \in WritingLines

(* C3: when the pass has ended, settings["numberofrules"] is the number of     *)
(* distinct hostnames written as rule records to the body.                     *)
C3_CountCorrect ==
    pc \in {"finalizeFile", "done"}
    => settings.numberofrules = Cardinality({RecordHost(i) : i \in RecordChunks})

\* the pass ended with a record, a pass-through chunk and a dropped line
C3_Witness ==
    /\ pc = "done"
    /\ settings.numberofrules >= 1
    /\ BodyChunks \ RecordChunks # {}
    /\ Consumed \ WritingLines # {}

IsCommentOrBlank(line) == line[1] = "#" \/ \A i \in 1..Len(line) : line[i] \in Whitespace

(* C5: a comment line and a blank line are copied to the body byte for byte,   *)
(* and processing one leaves the set of seen hostnames and the counter as they *)
(* were.                                                                       *)
C5_PassThroughVerbatim ==
    [][(pc = "loop" /\ pos < Len(mergeLines) /\ IsCommentOrBlank(mergeLines[pos + 1]))
       => /\ finalFile' = Append(finalFile, mergeLines[pos + 1])
          /\ hostnames' = hostnames
          /\ numberOfRules' = numberOfRules]_vars

\* text contains one of the whitelist entries
HasWhitelistEntry(text) ==
    \E e \in 1..Len(settings.exclusions) : Contains(text, settings.exclusions[e])

(* C6, as claimed: a line that is not passed through and whose raw text, as    *)
(* read from the merge file, contains a whitelist entry writes no record.      *)
C6_WhitelistDrops_AsClaimed ==
    \A k \in Consumed :
        (~isPassThrough(lineAt(k)) /\ HasWhitelistEntry(mergeLines[k]))
        => k \notin WritingLines

(* C6, amended: a line that is not passed through and whose text after the     *)
(* trim of trailing spaces and periods (the text the loop holds, comment text  *)
(* after the hostname included) contains a whitelist entry writes no record.   *)
C6_WhitelistDrops ==
    \A k \in Consumed :
        (~isPassThrough(lineAt(k)) /\ HasWhitelistEntry(lineAt(k)))
        => k \notin WritingLines

\* a line whose rule parses to an unseen hostname was dropped for a whitelist
\* entry that occurs only in the text after its hostname
C6_Witness ==
    \E k \in Consumed :
        /\ ~isPassThrough(lineAt(k))
        /\ ~Contains(lineAt(k), <<":",":","1">>)
        /\ normalizeRule(stripRule(lineAt(k))).rule # None
        /\ ~matchesExclusions(stripRule(lineAt(k)))
        /\ normalizeRule(stripRule(lineAt(k))).hostname \notin hostnames
        /\ HasWhitelistEntry(lineAt(k))
        /\ ~HasWhitelistEntry(stripRule(lineAt(k)))
        /\ k \notin WritingLines

(* C7: the record of a rule line with text after its hostname is               *)
(* targetip + " " + hostname + " #" + that text + "\n" when keepdomaincomments *)
(* is true, and targetip + " " + hostname + "\n" when it is false.             *)
C7_CommentSuffix ==
    \A i \in RecordChunks :
        ruleRegexSearch(lineAt(writtenBy[i])).suffix # <<>>
        => finalFile[i] =
              IF settings.keepdomaincomments
              THEN settings.targetip \o <<" ">> \o facts[writtenBy[i]].host \o <<" ","#">>
                   \o ruleRegexSearch(lineAt(writtenBy[i])).suffix \o <<"\n">>
              ELSE settings.targetip \o <<" ">> \o facts[writtenBy[i]].host \o <<"\n">>

UpperSet == {UpperChars[j] : j \in 1..26}

\* the pairs of one letter in its two cases
CasePairs ==
    {<<UpperChars[j], LowerChars[j]>> : j \in 1..26}
        \cup {<<LowerChars[j], UpperChars[j]>> : j \in 1..26}

NoUpper(s) == \A i \in 1..Len(s) : s[i] \notin UpperSet

\* a and b are equal up to the case of their letters
SameIgnoringCase(a, b) ==
    /\ Len(a) = Len(b)
    /\ \A i \in 1..Len(a) : a[i] = b[i] \/ <<a[i], b[i]>> \in CasePairs

\* consumed lines i < j both reach the dedupe test and spell one hostname,
\* up to the case of its letters
SameSpelling(F, i, j) ==
    i < j /\ F[i].reaches /\ F[j].reaches /\ SameIgnoringCase(F[i].token, F[j].token)

C9_OnlyCommentOrBlankPassed ==
    [][(pc = "loop" /\ pos < Len(mergeLines) /\ ~IsCommentOrBlank(lineAt(pos + 1)))
       => applyOutcome(IF Contains(lineAt(pos + 1), <<":",":","1">>) THEN dropped
                       ELSE strippedOutcome(lineAt(pos + 1), stripRule(lineAt(pos + 1))))]_vars

(* C10: before classification a line has no trailing space or period and ends  *)
(* with exactly one "\n", so the hostname of a rule line that ends with a      *)
(* period carries no trailing period.                                          *)
C10_TrailingTrimmed ==
    /\ \A k \in Consumed :
          /\ lineAt(k)[Len(lineAt(k))] = "\n"
          /\ Len(lineAt(k)) > 1 => lineAt(k)[Len(lineAt(k)) - 1] \notin {" ", ".", "\n"}
    /\ \A i \in RecordChunks :
          Len(split(mergeLines[writtenBy[i]])) = 2
          => RecordHost(i)[Len(RecordHost(i))] # "."

\* tok is the domain, or zero or more "label." prefixes followed by the domain
IsDomainOrSubdomain(tok, domain) ==
    /\ Len(tok) >= Len(domain)
    /\ SubSeq(tok, Len(tok) - Len(domain) + 1, Len(tok)) = domain
    /\ labelsMatch(SubSeq(tok, 1, Len(tok) - Len(domain)))

\* the second token of the line is a registered domain or a subdomain of one
NamesExcludedDomain(line) ==
    /\ Len(split(line)) >= 2
    /\ \E e \in 1..Len(settings.exclusionregexs) :
          IsDomainOrSubdomain(split(line)[2], settings.exclusionregexs[e])

(* C11: a line that is not passed through and whose second token is a domain   *)
(* registered with excludeDomain, or a subdomain of one, writes no record and  *)
(* leaves the set of seen hostnames and the counter as they were.              *)
C11_ExcludedDomainDropped ==
    [][(/\ pc = "loop"
        /\ pos < Len(mergeLines)
        /\ ~isPassThrough(lineAt(pos + 1))
        /\ NamesExcludedDomain(lineAt(pos + 1)))
       => /\ finalFile' = finalFile
          /\ hostnames' = hostnames
          /\ numberOfRules' = numberOfRules]_vars

\* the line has two tokens or more, is not passed through, and its first two
\* tokens do not match the pattern of normalizeRule
Unparseable(line) ==
    /\ ~isPassThrough(line)
    /\ Len(split(line)) >= 2
    /\ ~ruleRegexSearch(stripRule(line)).matched

\* the body, the set and the counter after one more line: f are the facts of
\* the line
ReplayLine(st, line, f) ==
    IF isPassThrough(line)
    THEN [file |-> Append(st.file, line), hosts |-> st.hosts, count |-> st.count]
    ELSE IF f.reaches /\ f.host \notin st.hosts
    THEN [file |-> Append(st.file, f.rule), hosts |-> st.hosts \cup {f.host},
          count |-> st.count + 1]
    ELSE st

\* the body, the set and the counter a pass over the first n lines of the merge
\* file ends with when it skips the lines of the set U
RECURSIVE ReplayWithout(_, _)
ReplayWithout(U, n) ==
    IF n = 0
    THEN [file |-> <<>>, hosts |-> SeededHostnames, count |-> defaults.numberofrules]
    ELSE IF n \in U THEN ReplayWithout(U, n - 1)
    ELSE ReplayLine(ReplayWithout(U, n - 1), lineAt(n), facts[n])

C13_NoExcludedHostWritten ==
    \A i \in RecordChunks : \A e \in 1..Len(settings.exclusionregexs) :
        ~IsDomainOrSubdomain(RecordHost(i), settings.exclusionregexs[e])

\* the chunks of finalFile that writeOpeningHeader wrote
HeaderChunks == {i \in 1..Len(finalFile) : writtenBy[i] = 0}

\* the hostnames of the fixed static entries
FixedStaticHostnames ==
    SeededHostnames \cup { <<"0",".","0",".","0",".","0">> }

\* the header chunks that are a fixed static entry
StaticChunks ==
    {j \in HeaderChunks : /\ Len(split(finalFile[j])) = 2
                           /\ split(finalFile[j])[2] \in FixedStaticHostnames}

(* C14: when static hosts are not skipped, no hostname of a fixed static entry *)
(* of the header (localhost, localhost.localdomain, local, broadcasthost,     *)
(* 0.0.0.0) is the hostname of a rule record of the merged body.               *)
C14_StaticHostsNotRepeated ==
    (pc = "done" /\ ~settings.skipstatichosts)
    => \A i \in RecordChunks : \A j \in StaticChunks :
          RecordHost(i) # split(finalFile[j])[2]

====
